---- MODULE Spec2Model ----
(***************************************************************************)
(* A model of the Avito harvester (src/avito_scraper.py).                  *)
(*                                                                         *)
(* Eight specifications share the variables:                               *)
(*   SpecThrottle  SmartRateLimiter alone, driven by arbitrary sequences   *)
(*                 of record_success / record_error calls;                 *)
(*   SpecFetch     a pool of threads running extract_info concurrently     *)
(*                 (make_request with its retries, the rate limiter, the   *)
(*                 session rotation, save_progress under the lock);        *)
(*   Spec          the run life cycle of OptimizedAvitoScraper: __init__,  *)
(*                 link discovery, the preview, the chunks, the sink,      *)
(*                 and a kill followed by a restart at any point.          *)
(*   SpecBatch     one worker_batch call on up to MaxSubmitted URLs: the   *)
(*                 flushes of the results while the futures complete and   *)
(*                 the final drain;                                        *)
(*   SpecDiscover  collect_links_optimized over listing pages of any       *)
(*                 number of items, repeated hrefs included;               *)
(*   SpecScore     the scoring loop of extract_description_improved over   *)
(*                 the divs of a page;                                     *)
(*   SpecLocks     the threads of one chunk with every lock acquisition,   *)
(*                 block body, sleep and session.get a step of its own;    *)
(*   SpecRun       one run from the return of the discovery to its end,    *)
(*                 threads as in SpecLocks, under weak fairness.           *)
(* SpecDiscoverLive is SpecDiscover under weak fairness.                   *)
(*                                                                         *)
(* Strings are sequences of one-character strings, so that strip() and the *)
(* line structure of the files are computed and not assumed.               *)
(***************************************************************************)
EXTENDS Integers, Sequences, FiniteSets, TLC

(***************************************************************************)
(* Exact rationals n/d for the delays (seconds).  The code computes with   *)
(* binary floats; the model computes the same products and clamps exactly. *)
(***************************************************************************)
RECURSIVE GCD(_, _)
GCD(a, b) == IF b = 0 THEN a ELSE GCD(b, a % b)

Frac(n, d) == [n |-> n \div GCD(n, d), d |-> d \div GCD(n, d)]

Mul(q, n, d) == Frac(q.n * n, q.d * d)

Less(p, q) == p.n * q.d < q.n * p.d

MaxQ(p, q) == IF Less(p, q) THEN q ELSE p

MinQ(p, q) == IF Less(q, p) THEN q ELSE p

(***************************************************************************)
(* Strings: sequences of one-character strings.                            *)
(***************************************************************************)
LF == "\n"

Whitespace == {" ", LF}

Range(s) == {s[i] : i \in DOMAIN s}

RECURSIVE lstrip(_)
lstrip(s) ==
    IF s # <<>> /\ Head(s) \in Whitespace THEN lstrip(Tail(s)) ELSE s

RECURSIVE rstrip(_)
rstrip(s) ==
    IF s # <<>> /\ s[Len(s)] \in Whitespace
    THEN rstrip(SubSeq(s, 1, Len(s) - 1))
    ELSE s

\* str.strip()
strip(s) == rstrip(lstrip(s))

\* the lines of a text file as "for line in f" yields them: each line keeps
\* its "\n", the last one may lack it
RECURSIVE readlines(_)
readlines(text) ==
    IF text = <<>>
    THEN <<>>
    ELSE LET k == CHOOSE i \in 1..Len(text) :
                     /\ text[i] = LF \/ i = Len(text)
                     /\ \A j \in 1..(i - 1) : text[j] # LF
         IN  <<SubSeq(text, 1, k)>> \o readlines(SubSeq(text, k + 1, Len(text)))

\* f.write(url + '\n') on a file opened for appending
AppendLine(text, url) == text \o url \o <<LF>>

(***************************************************************************)
(* The target site.  "H" stands for the prefix "https://www.avito.ma", "o" *)
(* for a category keyword ('/ordinateurs', 'desktop', 'bureau'), "x" for   *)
(* any other path.  An href is whatever the page holds: relative or        *)
(* absolute, and possibly padded with white space.                         *)
(***************************************************************************)
Hrefs ==
    { <<"/", "o", "1">>,
      <<"H", "/", "o", "1">>,
      <<"/", "o", "1", " ">>,
      <<"/", "x">> }

InCategory(href) == "o" \in Range(href)

full_url(href) == IF Head(href) = "/" THEN <<"H">> \o href ELSE href

\* the URLs discovery can hand to extract_info
Urls == {full_url(href) : href \in {h \in Hrefs : InCategory(h)}}

(***************************************************************************)
(* Bounds of the model.                                                    *)
(***************************************************************************)
\* the largest power of ten a delay's denominator may carry
MaxDenExp == 3
\* the longest run of consecutive errors that is followed
MaxErrorCount == 7
\* the longest run of consecutive successes that is followed
MaxStreak == 31

\* the threads of one ThreadPoolExecutor (max_workers of the scraper)
max_workers == 2
\* the longest list of URLs handed to worker_batch
MaxChunk == 2

\* the most items a listing page holds
MaxItems == 3
\* the number of times the scraper is started (one more than the kills)
MaxRuns == 2
\* the longest list of URLs worker_batch is called with on its own
MaxSubmitted == 5
\* the most items a listing page of the discovery on its own holds
MaxListing == 5
\* the most blocks of a page the description scoring looks at
MaxDivs == 2
\* the most words of the vocabulary a block holds
MaxWords == 3
\* the most listing pages discovery loads
MaxPages == 3
\* scrape_optimized's batch_size (100 in the code), scaled down
batch_size == 2
\* worker_batch writes the records once it holds this many (10 in the
\* code), scaled down
flush_size == 2

RECURSIVE Pow10(_)
Pow10(k) == IF k = 0 THEN 1 ELSE 10 * Pow10(k - 1)

Representable(q) == q.d <= 5 * Pow10(MaxDenExp)

(***************************************************************************)
(* SmartRateLimiter                                                        *)
(***************************************************************************)
base_delay == Frac(4, 5)
max_delay == Frac(6, 1)
SuccessThreshold == 15
ErrorThreshold == 5
RateLimited == 429
\* record_error() without a status code (status_code=None)
NoStatus == 0
\* some status that is neither 200 nor 429
ServerError == 500

Signals == {RateLimited, ServerError, NoStatus}

VARIABLES
    current_delay,   \* SmartRateLimiter.current_delay
    success_count,   \* SmartRateLimiter.success_count
    error_count,     \* SmartRateLimiter.error_count
    lastCall,        \* history: the last call made on the rate limiter
    okStreak,        \* history: successes since the last error
    errStreak,       \* history: errors since the last success
    processed_urls,  \* OptimizedAvitoScraper.processed_urls
    progress_file,   \* the text of <category>_progress.txt
    lock,            \* OptimizedAvitoScraper.lock: the thread holding it, or 0
    current_session, \* RotatingSessionManager.current_session
    urls,            \* worker_batch: the URLs of the chunk
    nextTask,        \* the executor's queue: the first task not yet started
    future,          \* per task: "pending", "none", "record", then "taken"
    pc,              \* per thread: where it stands
    task,            \* per thread: the task it runs (0: none)
    attempt,         \* per thread: make_request's loop variable
    session,         \* per thread: the session get_session returned
    fresh,           \* per thread: save_progress's "url not in processed_urls"
    loaded_file,     \* history: the progress file as __init__ found it
    outcome,         \* history, per task: how extract_info ended
    lastAttempt,     \* history, per thread: its last attempt (status, calls,
                     \* number, sleep) in the make_request call it last ran
    calls,           \* history, per thread: waits and gets of the make_request it is in
    responded,       \* history: the URLs some fetch got a 200 response for
    phase,           \* the main thread: where scrape_optimized stands
    runs,            \* the number of times the scraper was started
    link_file,       \* <category>_links.txt: whether it exists, and its text
    sink,            \* the rows of the CSV file after its header: their URL
    all_links,       \* scrape_optimized: the links to process
    page,            \* collect_links_optimized: the page to load
    collected_links, \* collect_links_optimized: the links of the pages so far
    chunk_at,        \* scrape_optimized: the loop variable i
    results,         \* worker_batch: the records not yet written
    fetched,         \* history: the item URLs make_request was called for
    sink_at_start,   \* history: the sink as __init__ found it
    lastPage,        \* history: the last listing page discovery handled
                     \* (kept until the preview starts)
    handed,          \* history: the number of get_session calls completed
    submitted,       \* history: the records as_completed got in this chunk
    flushes,         \* history: the writes as_completed made in this chunk
    all_divs,        \* extract_description_improved: the blocks of the page
    div_at,          \* extract_description_improved: the block the loop is at
    best_score,      \* extract_description_improved: best_score
    best_candidate,  \* extract_description_improved: best_candidate
    session_lock,    \* RotatingSessionManager.lock: the thread holding it, or 0
    limiter_lock     \* SmartRateLimiter.lock: the thread holding it, or 0

rlVars == <<current_delay, success_count, error_count>>
rlHist == <<lastCall, okStreak, errStreak>>
fileVars == <<link_file, sink>>
mainVars == <<phase, runs, all_links, page, collected_links, chunk_at, results>>
runHist == <<fetched, sink_at_start>>
batchHist == <<submitted, flushes>>
descVars == <<all_divs, div_at, best_score, best_candidate>>
lockVars == <<session_lock, limiter_lock>>

NoCall == [op |-> "none", status_code |-> NoStatus]

RateLimiterInit ==
    /\ current_delay = base_delay
    /\ success_count = 0
    /\ error_count = 0

\* the delay record_success leaves, count being the incremented success_count
DelayAfterSuccess_noFloor(delay, count) ==
    IF count >= SuccessThreshold THEN Mul(delay, 9, 10) ELSE delay

DelayAfterSuccess_early(delay, count) ==
    IF count >= SuccessThreshold - 1
    THEN MaxQ(base_delay, Mul(delay, 9, 10))
    ELSE delay

DelayAfterSuccess(delay, count) ==
    IF count >= SuccessThreshold
    THEN MaxQ(base_delay, Mul(delay, 9, 10))
    ELSE delay

CountAfterSuccess(count) ==
    IF count >= SuccessThreshold THEN 0 ELSE count

\* the delay record_error leaves, count being the incremented error_count
DelayAfterError_both(delay, count, status_code) ==
    LET d1 == IF status_code = RateLimited
              THEN MinQ(max_delay, Mul(delay, 2, 1))
              ELSE delay
    IN  IF count >= ErrorThreshold THEN MinQ(max_delay, Mul(d1, 6, 5)) ELSE d1

DelayAfterError_eager(delay, count, status_code) ==
    IF status_code = RateLimited
    THEN MinQ(max_delay, Mul(delay, 2, 1))
    ELSE IF count >= ErrorThreshold - 1
         THEN MinQ(max_delay, Mul(delay, 6, 5))
         ELSE delay

DelayAfterError(delay, count, status_code) ==
    IF status_code = RateLimited
    THEN MinQ(max_delay, Mul(delay, 2, 1))
    ELSE IF count >= ErrorThreshold
         THEN MinQ(max_delay, Mul(delay, 6, 5))
         ELSE delay

record_success ==
    /\ Representable(DelayAfterSuccess(current_delay, success_count + 1))
    /\ success_count' = CountAfterSuccess(success_count + 1)
    /\ error_count' = 0
    /\ current_delay' = DelayAfterSuccess(current_delay, success_count + 1)

record_error(status_code) ==
    /\ error_count < MaxErrorCount
    /\ Representable(DelayAfterError(current_delay, error_count + 1, status_code))
    /\ error_count' = error_count + 1
    /\ success_count' = 0
    /\ current_delay' = DelayAfterError(current_delay, error_count + 1, status_code)

(***************************************************************************)
(* OptimizedAvitoScraper: the resume ledger                                *)
(***************************************************************************)
\* load_progress: the set of stripped lines of the progress file
load_progress(text) == {strip(line) : line \in Range(readlines(text))}

LockAvailable_ignored == TRUE

\* "with self.lock" can be entered
LockAvailable == lock = 0

AddProcessed_forgotten(set, url) == set

\* self.processed_urls.add(url)
AddProcessed(set, url) == set \cup {url}

(***************************************************************************)
(* make_request and extract_info, run by the threads of the executor       *)
(***************************************************************************)
Threads == 1..max_workers

\* for attempt in range(retries), retries=3
retries == 3

MoreAttempts_extra(a) == a < retries

\* range(retries): another iteration follows attempt a
MoreAttempts(a) == a + 1 < retries

OK == 200

\* HTTP 2xx as the site serves it: 200 and one other success status
SuccessStatuses == {OK, 204}

\* what session.get ends with: a status, or NoStatus when it raised a
\* RequestException
Outcomes == SuccessStatuses \cup {RateLimited, ServerError, NoStatus}

Classify_strict(status) ==
    IF status = RateLimited THEN "rate_limited"
    ELSE IF status = NoStatus THEN "transport"
    ELSE "other"

\* the branch of make_request's loop body an outcome takes
Classify(status) ==
    IF status = OK THEN "success"
    ELSE IF status = RateLimited THEN "rate_limited"
    ELSE IF status = NoStatus THEN "transport"
    ELSE "other"

\* what the loop body calls after session.get, for attempt number a (from 0)
AttemptCalls(kind, a) ==
    IF kind = "success" THEN <<"record_success">>
    ELSE IF kind = "rate_limited" THEN <<"record_error", "sleep_cooldown">>
    ELSE IF kind = "transport" /\ a < retries - 1
         THEN <<"record_error", "sleep_backoff">>
    ELSE <<"record_error">>

NoSleep == [lo |-> 0, hi |-> 0]

\* the time.sleep of the loop body after session.get, for attempt number a
\* (from 0), in seconds: (attempt + 1) * 10 after a 429, random.uniform(2, 5)
\* after a RequestException that is not the last attempt's
AttemptSleep(kind, a) ==
    IF kind = "rate_limited" THEN [lo |-> (a + 1) * 10, hi |-> (a + 1) * 10]
    ELSE IF kind = "transport" /\ a < retries - 1 THEN [lo |-> 2, hi |-> 5]
    ELSE NoSleep

NoAttempt == [status |-> NoStatus, calls |-> <<>>, attempt |-> 0,
              sleep |-> NoSleep]

\* what is remembered of attempt number a that ended with status
Attempted(status, a) ==
    [status |-> status,
     calls |-> AttemptCalls(Classify(status), a),
     attempt |-> a,
     sleep |-> AttemptSleep(Classify(status), a)]

NoCalls == [waits |-> 0, gets |-> 0]

poolVars == <<urls, nextTask, future>>
localVars == <<pc, task, attempt, session, fresh>>
ledgerVars == <<processed_urls, progress_file>>
histVars == <<loaded_file, outcome, lastAttempt, calls, responded>>

url_of(t) == urls[task[t]]

\* extract_info returns res to the future of the task of thread t
Return(t, res, kind) ==
    /\ future' = [future EXCEPT ![task[t]] = res]
    /\ outcome' = [outcome EXCEPT ![task[t]] = kind]
    /\ pc' = [pc EXCEPT ![t] = "idle"]
    /\ task' = [task EXCEPT ![t] = 0]
    /\ attempt' = [attempt EXCEPT ![t] = 0]
    /\ session' = [session EXCEPT ![t] = 0]
    /\ fresh' = [fresh EXCEPT ![t] = FALSE]
    /\ lastAttempt' = [lastAttempt EXCEPT ![t] = NoAttempt]
    /\ calls' = [calls EXCEPT ![t] = NoCalls]

\* a pool thread takes the next submitted task (the threads are
\* interchangeable: the idle thread of the lowest number takes it) and runs
\* extract_info up to "if url in self.processed_urls: return None"
ei_check(t) ==
    /\ pc[t] = "idle"
    /\ \A other \in 1..(t - 1) : pc[other] # "idle"
    /\ nextTask <= Len(urls)
    /\ nextTask' = nextTask + 1
    /\ IF urls[nextTask] \in processed_urls
       THEN /\ future' = [future EXCEPT ![nextTask] = "none"]
            /\ outcome' = [outcome EXCEPT ![nextTask] = "skipped"]
            /\ UNCHANGED <<pc, task>>
       ELSE /\ pc' = [pc EXCEPT ![t] = "session"]
            /\ task' = [task EXCEPT ![t] = nextTask]
            /\ UNCHANGED <<future, outcome>>
    /\ UNCHANGED <<fileVars, mainVars>>
    /\ lastAttempt' = [lastAttempt EXCEPT ![t] = NoAttempt]
    /\ UNCHANGED <<rlVars, rlHist, ledgerVars, lock, current_session, urls,
                   attempt, session, fresh, loaded_file, calls, responded>>
    /\ UNCHANGED <<runHist, lastPage, handed, batchHist>>
    /\ UNCHANGED <<descVars, lockVars>>

NextSession_stuck(cursor) == cursor

\* get_session, under RotatingSessionManager.lock: the cursor after the call
NextSession(cursor) == (cursor + 1) % max_workers

\* make_request: session = self.session_manager.get_session(), then the
\* first iteration's self.rate_limiter.wait(); the thread is then inside
\* session.get
get_session(t) ==
    /\ pc[t] = "session"
    /\ session' = [session EXCEPT ![t] = current_session]
    /\ current_session' = NextSession(current_session)
    /\ attempt' = [attempt EXCEPT ![t] = 0]
    /\ calls' = [calls EXCEPT ![t].waits = @ + 1]
    /\ pc' = [pc EXCEPT ![t] = "get"]
    /\ UNCHANGED <<fileVars, mainVars>>
    /\ UNCHANGED <<rlVars, rlHist, ledgerVars, lock, poolVars, task, fresh,
                   loaded_file, outcome, lastAttempt, responded>>
    /\ handed' = handed + 1
    /\ fetched' = fetched \cup {url_of(t)}
    /\ UNCHANGED <<sink_at_start, lastPage, batchHist>>
    /\ UNCHANGED <<descVars, lockVars>>

\* make_request: session.get(url) ends, and the rest of the loop body: the
\* call on the rate limiter, the sleep, and then either "return response",
\* the next iteration up to its session.get, or "return None" with
\* extract_info's "if not response: return None"
session_get(t) ==
    /\ pc[t] = "get"
    /\ \E status \in Outcomes :
          LET kind == Classify(status)
          IN  /\ IF Head(AttemptCalls(kind, attempt[t])) = "record_success"
                 THEN record_success
                 ELSE record_error(status)
              /\ IF kind = "success"
                 THEN /\ pc' = [pc EXCEPT ![t] = "extract"]
                      /\ responded' = responded \cup {url_of(t)}
                      /\ lastAttempt' = [lastAttempt EXCEPT ![t] =
                            Attempted(status, attempt[t])]
                      /\ calls' = [calls EXCEPT ![t] = NoCalls]
                      /\ session' = [session EXCEPT ![t] = 0]
                      /\ attempt' = [attempt EXCEPT ![t] = 0]
                      /\ UNCHANGED <<future, task, fresh, outcome>>
                 ELSE IF MoreAttempts(attempt[t])
                 THEN /\ attempt' = [attempt EXCEPT ![t] = @ + 1]
                      /\ lastAttempt' = [lastAttempt EXCEPT ![t] =
                            Attempted(status, attempt[t])]
                      /\ calls' = [calls EXCEPT ![t] =
                            [waits |-> @.waits + 1, gets |-> @.gets + 1]]
                      /\ UNCHANGED <<future, pc, task, session, fresh,
                                     outcome, responded>>
                 ELSE /\ future' = [future EXCEPT ![task[t]] = "none"]
                      /\ outcome' = [outcome EXCEPT ![task[t]] = "nofetch"]
                      /\ pc' = [pc EXCEPT ![t] = "idle"]
                      /\ task' = [task EXCEPT ![t] = 0]
                      /\ attempt' = [attempt EXCEPT ![t] = 0]
                      /\ session' = [session EXCEPT ![t] = 0]
                      /\ lastAttempt' = [lastAttempt EXCEPT ![t] =
                            Attempted(status, attempt[t])]
                      /\ calls' = [calls EXCEPT ![t] = NoCalls]
                      /\ UNCHANGED <<fresh, responded>>
    /\ UNCHANGED <<fileVars, mainVars>>
    /\ UNCHANGED <<rlHist, ledgerVars, lock, current_session, urls, nextTask,
                   loaded_file>>
    /\ UNCHANGED <<runHist, lastPage, handed, batchHist>>
    /\ UNCHANGED <<descVars, lockVars>>

\* the fields of a record that are read from the page
Fields == {"title", "price", "description", "post_date", "condition"}

\* the fields whose extraction has a try/except of its own, which puts the
\* sentinel ("N/A", "Not specified") in place of the value
Guarded == {"title", "price", "post_date", "condition"}

\* an exception in the extraction of the field reaches extract_info's outer
\* "except Exception" ("none": no extraction raises)
Raises(field) == field \in Fields \ Guarded

\* extract_info: the try block up to save_progress, the extraction of one
\* field at most raising; an exception that escapes the field extraction
\* ends in "except Exception: return None"
extract(t) ==
    /\ pc[t] = "extract"
    /\ \E failing \in Fields \cup {"none"} :
          IF Raises(failing)
          THEN /\ Return(t, "none", "raised")
               /\ UNCHANGED <<loaded_file, responded>>
          ELSE /\ pc' = [pc EXCEPT ![t] = "sp_lock"]
               /\ UNCHANGED <<future, task, attempt, session, fresh, histVars>>
    /\ UNCHANGED <<fileVars, mainVars>>
    /\ UNCHANGED <<rlVars, rlHist, ledgerVars, lock, current_session, urls,
                   nextTask>>
    /\ UNCHANGED <<runHist, lastPage, handed, batchHist>>
    /\ UNCHANGED <<descVars, lockVars>>

\* save_progress: "with self.lock" and "if url not in self.processed_urls"
sp_lock(t) ==
    /\ pc[t] = "sp_lock"
    /\ LockAvailable
    /\ lock' = t
    /\ fresh' = [fresh EXCEPT ![t] = url_of(t) \notin processed_urls]
    /\ pc' = [pc EXCEPT ![t] = "sp_write"]
    /\ UNCHANGED <<fileVars, mainVars>>
    /\ UNCHANGED <<rlVars, rlHist, ledgerVars, current_session, poolVars, task,
                   attempt, session, histVars>>
    /\ UNCHANGED <<runHist, lastPage, handed, batchHist>>
    /\ UNCHANGED <<descVars, lockVars>>

\* save_progress: the add and the append, the release of the lock, and
\* extract_info's "return {...}"
sp_write(t) ==
    /\ pc[t] = "sp_write"
    /\ IF fresh[t]
       THEN /\ processed_urls' = AddProcessed(processed_urls, url_of(t))
            /\ progress_file' = AppendLine(progress_file, url_of(t))
       ELSE UNCHANGED ledgerVars
    /\ lock' = 0
    /\ Return(t, "record", "record")
    /\ UNCHANGED <<fileVars, mainVars>>
    /\ UNCHANGED <<rlVars, rlHist, current_session, urls, nextTask,
                   loaded_file, responded>>
    /\ UNCHANGED <<runHist, lastPage, handed, batchHist>>
    /\ UNCHANGED <<descVars, lockVars>>

vars == <<rlVars, rlHist, ledgerVars, lock, current_session, poolVars,
          localVars, histVars, fileVars, mainVars, runHist, lastPage, handed,
          batchHist, descVars, lockVars>>

(***************************************************************************)
(* SpecThrottle: the rate limiter under every sequence of calls.  Both     *)
(* methods run under SmartRateLimiter.lock, so a call is one step whatever *)
(* thread makes it.                                                        *)
(***************************************************************************)
NoFile == [exists |-> FALSE, text |-> <<>>]

\* no listing page was handled yet
NoPage == [page |-> 0, response |-> FALSE, items |-> 0, new |-> 0,
           stopped |-> FALSE, kept |-> <<>>]

\* "best_candidate = None"
NoCandidate == [words |-> {}, len |-> 0]

\* no run of scrape_optimized yet: no link list, an empty sink
RunIdle ==
    /\ session_lock = 0
    /\ limiter_lock = 0
    /\ fetched = {}
    /\ sink_at_start = <<>>
    /\ lastPage = NoPage
    /\ handed = 0
    /\ submitted = 0
    /\ flushes = 0
    /\ runs = 1
    /\ link_file = NoFile
    /\ sink = <<>>
    /\ all_links = <<>>
    /\ page = 0
    /\ collected_links = <<>>
    /\ chunk_at = 0
    /\ results = <<>>

\* the main thread outside scrape_optimized and outside any extraction
MainIdle ==
    /\ all_divs = <<>>
    /\ div_at = 1
    /\ best_score = 0
    /\ best_candidate = NoCandidate
    /\ RunIdle

\* the scraper before any chunk was handed to it
ScraperIdle ==
    /\ phase = "idle"
    /\ MainIdle
    /\ lock = 0
    /\ current_session = 0
    /\ urls = <<>>
    /\ nextTask = 1
    /\ future = <<>>
    /\ pc = [t \in Threads |-> "idle"]
    /\ task = [t \in Threads |-> 0]
    /\ attempt = [t \in Threads |-> 0]
    /\ session = [t \in Threads |-> 0]
    /\ fresh = [t \in Threads |-> FALSE]
    /\ outcome = <<>>
    /\ lastAttempt = [t \in Threads |-> NoAttempt]
    /\ calls = [t \in Threads |-> NoCalls]
    /\ responded = {}

ThrottleInit ==
    /\ RateLimiterInit
    /\ lastCall = NoCall
    /\ okStreak = 0
    /\ errStreak = 0
    /\ processed_urls = {}
    /\ progress_file = <<>>
    /\ loaded_file = <<>>
    /\ ScraperIdle

CallRecordSuccess ==
    /\ okStreak < MaxStreak
    /\ record_success
    /\ lastCall' = [op |-> "success", status_code |-> NoStatus]
    /\ okStreak' = okStreak + 1
    /\ errStreak' = 0
    /\ UNCHANGED <<fileVars, mainVars>>
    /\ UNCHANGED <<ledgerVars, lock, current_session, poolVars, localVars,
                   histVars>>
    /\ UNCHANGED <<runHist, lastPage, handed, batchHist>>
    /\ UNCHANGED <<descVars, lockVars>>

CallRecordError ==
    /\ \E status_code \in Signals :
          /\ record_error(status_code)
          /\ lastCall' = [op |-> "error", status_code |-> status_code]
    /\ okStreak' = 0
    /\ errStreak' = errStreak + 1
    /\ UNCHANGED <<fileVars, mainVars>>
    /\ UNCHANGED <<ledgerVars, lock, current_session, poolVars, localVars,
                   histVars>>
    /\ UNCHANGED <<runHist, lastPage, handed, batchHist>>
    /\ UNCHANGED <<descVars, lockVars>>

ThrottleNext ==
    \/ CallRecordSuccess
    \/ CallRecordError

SpecThrottle == ThrottleInit /\ [][ThrottleNext]_vars

(***************************************************************************)
(* SpecFetch: one chunk handed to worker_batch, its tasks run by the       *)
(* threads of the executor, on top of a ledger some earlier run left.      *)
(***************************************************************************)
Chunks == UNION {[1..n -> Urls] : n \in 1..MaxChunk}

\* the progress files an earlier run can have left
InitialLedgers ==
    { <<>>,
      AppendLine(<<>>, <<"H", "/", "o", "1", " ">>) }

FetchInit ==
    /\ RateLimiterInit
    /\ lastCall = NoCall
    /\ okStreak = 0
    /\ errStreak = 0
    /\ progress_file \in InitialLedgers
    /\ loaded_file = progress_file
    /\ processed_urls = load_progress(progress_file)
    /\ lock = 0
    /\ current_session = 0
    /\ urls \in Chunks
    /\ nextTask = 1
    /\ future = [i \in DOMAIN urls |-> "pending"]
    /\ pc = [t \in Threads |-> "idle"]
    /\ task = [t \in Threads |-> 0]
    /\ attempt = [t \in Threads |-> 0]
    /\ session = [t \in Threads |-> 0]
    /\ fresh = [t \in Threads |-> FALSE]
    /\ outcome = [i \in DOMAIN urls |-> "pending"]
    /\ lastAttempt = [t \in Threads |-> NoAttempt]
    /\ calls = [t \in Threads |-> NoCalls]
    /\ responded = {}
    /\ phase = "collect"
    /\ MainIdle

FetchNext ==
    \E t \in Threads :
        \/ ei_check(t)
        \/ get_session(t)
        \/ session_get(t)
        \/ extract(t)
        \/ sp_lock(t)
        \/ sp_write(t)

SpecFetch == FetchInit /\ [][FetchNext]_vars

(***************************************************************************)
(* Spec: the life cycle.  __init__, scrape_optimized with the discovery or *)
(* the stored link list, the preview, the chunks run by worker_batch, and  *)
(* a kill followed by a new start at any point.  The main thread's steps   *)
(* before the chunks run alone, so each is one action.                     *)
(*                                                                         *)
(* The rate limiter and the session cursor decide how long a thread sleeps *)
(* and which session it uses; no branch of the life cycle reads them.      *)
(* make_request is one step here (a response, or None after its retries);  *)
(* SpecFetch follows it attempt by attempt.                                *)
(***************************************************************************)
min_new_links == 5

\* what a listing page can hold: the hrefs of its items, in page order
Pages == UNION {[1..n -> Hrefs] : n \in 0..MaxItems}

\* collect_links_optimized: the links of one page
RECURSIVE page_links(_, _)
page_links(items, processed) ==
    IF items = <<>>
    THEN <<>>
    ELSE LET href == Head(items)
             rest == page_links(Tail(items), processed)
         IN  IF InCategory(href) /\ full_url(href) \notin processed
             THEN <<full_url(href)>> \o rest
             ELSE rest

\* for url in collected_links: f.write(url + "\n")
RECURSIVE WriteLines(_, _)
WriteLines(text, links) ==
    IF links = <<>>
    THEN text
    ELSE WriteLines(AppendLine(text, Head(links)), Tail(links))

\* [line.strip() for line in f if line.strip() not in self.processed_urls]
RECURSIVE pending_lines(_, _)
pending_lines(lines, processed) ==
    IF lines = <<>>
    THEN <<>>
    ELSE LET url == strip(Head(lines))
             rest == pending_lines(Tail(lines), processed)
         IN  IF url \notin processed THEN <<url>> \o rest ELSE rest

Min(a, b) == IF a < b THEN a ELSE b

\* all_links[i:i + batch_size]
batch(links, i) == SubSeq(links, i + 1, Min(i + batch_size, Len(links)))

ChunkCollected_early == TRUE

\* every future of the chunk was handed out by as_completed
ChunkCollected == \A k \in DOMAIN future : future[k] = "taken"

ThreadsIdle ==
    /\ pc = [t \in Threads |-> "idle"]
    /\ task = [t \in Threads |-> 0]
    /\ attempt = [t \in Threads |-> 0]
    /\ session = [t \in Threads |-> 0]
    /\ fresh = [t \in Threads |-> FALSE]
    /\ lastAttempt = [t \in Threads |-> NoAttempt]
    /\ calls = [t \in Threads |-> NoCalls]

\* a first start: no file exists yet
Init ==
    /\ RateLimiterInit
    /\ lastCall = NoCall
    /\ okStreak = 0
    /\ errStreak = 0
    /\ progress_file = <<>>
    /\ loaded_file = <<>>
    /\ processed_urls = {}
    /\ lock = 0
    /\ current_session = 0
    /\ urls = <<>>
    /\ nextTask = 1
    /\ future = <<>>
    /\ outcome = <<>>
    /\ responded = {}
    /\ ThreadsIdle
    /\ phase = "start"
    /\ MainIdle

\* scrape_optimized up to the preview: the stored link list when there is
\* one, the discovery otherwise
scrape_optimized ==
    /\ phase = "start"
    /\ IF link_file.exists
       THEN LET links == pending_lines(readlines(link_file.text),
                                       processed_urls)
            IN  /\ all_links' = links
                /\ phase' = IF links = <<>> THEN "done" ELSE "preview"
                /\ UNCHANGED <<page, collected_links>>
       ELSE /\ phase' = "discover"
            /\ page' = 1
            /\ collected_links' = <<>>
            /\ UNCHANGED all_links
    /\ UNCHANGED <<runs, chunk_at, results, fileVars>>
    /\ UNCHANGED <<rlVars, rlHist, ledgerVars, lock, current_session,
                   poolVars, localVars, histVars>>
    /\ UNCHANGED <<runHist, lastPage, handed, batchHist>>
    /\ UNCHANGED <<descVars, lockVars>>

\* collect_links_optimized: one iteration of "while True"; the iteration
\* that breaks also writes the link file and returns to scrape_optimized
AfterDiscovery_goesOn(links) == "preview"

\* scrape_optimized: "if not all_links: ... return" after the discovery
AfterDiscovery(links) == IF links = <<>> THEN "done" ELSE "preview"

TooFewNew_anyPage(links, pg) == Len(links) < min_new_links

\* "if len(links) < 5 and page > 1"
TooFewNew(links, pg) == Len(links) < min_new_links /\ pg > 1

\* collect_links_optimized: one iteration of "while True" over a page the
\* site serves from pages; the iteration that breaks also writes the link
\* file and returns to scrape_optimized
collect_links_optimized(pages) ==
    /\ phase = "discover"
    /\ page <= MaxPages
    /\ \E response \in BOOLEAN, items \in pages :
          LET links == page_links(items, processed_urls)
              stop == \/ ~response
                      \/ items = <<>>
                      \/ TooFewNew(links, page)
          IN  /\ ~response => items = <<>>
              /\ lastPage' = [page |-> page, response |-> response,
                              items |-> Len(items), new |-> Len(links),
                              stopped |-> stop,
                              kept |-> IF stop THEN collected_links ELSE <<>>]
              /\ IF stop
                 THEN /\ link_file' =
                            [exists |-> TRUE,
                             text |-> WriteLines(<<>>, collected_links)]
                      /\ all_links' = collected_links
                      /\ phase' = AfterDiscovery(collected_links)
                      /\ page' = 0
                      /\ collected_links' = <<>>
                 ELSE /\ collected_links' = collected_links \o links
                      /\ page' = page + 1
                      /\ UNCHANGED <<link_file, all_links, phase>>
    /\ UNCHANGED <<runs, chunk_at, results, sink>>
    /\ UNCHANGED <<rlVars, rlHist, ledgerVars, lock, current_session,
                   poolVars, localVars, histVars>>
    /\ UNCHANGED <<runHist, handed, batchHist>>
    /\ UNCHANGED <<descVars, lockVars>>

\* "sample_result = self.extract_info(all_links[0])": extract_info run by
\* the main thread before any executor exists; its result is only printed
preview ==
    /\ phase = "preview"
    /\ LET url == all_links[1]
       IN  IF url \in processed_urls
           THEN UNCHANGED <<ledgerVars, responded>>
           ELSE \E res \in {"nofetch", "raised", "record"} :
                   /\ responded' = IF res = "nofetch"
                                   THEN responded
                                   ELSE responded \cup {url}
                   /\ IF res = "record"
                      THEN /\ processed_urls' = AddProcessed(processed_urls, url)
                           /\ progress_file' = AppendLine(progress_file, url)
                      ELSE UNCHANGED ledgerVars
    /\ phase' = "chunk"
    /\ chunk_at' = 0
    /\ UNCHANGED <<runs, all_links, page, collected_links, results, fileVars>>
    /\ UNCHANGED <<rlVars, rlHist, lock, current_session, poolVars, localVars,
                   loaded_file, outcome, lastAttempt, calls>>
    /\ fetched' = IF all_links[1] \in processed_urls
                  THEN fetched
                  ELSE fetched \cup {all_links[1]}
    /\ lastPage' = NoPage
    /\ UNCHANGED <<sink_at_start, handed, batchHist>>
    /\ UNCHANGED <<descVars, lockVars>>

\* worker_batch(batch): the executor and the submission of every URL
worker_batch ==
    /\ phase = "chunk"
    /\ urls' = batch(all_links, chunk_at)
    /\ nextTask' = 1
    /\ future' = [k \in DOMAIN urls' |-> "pending"]
    /\ outcome' = [k \in DOMAIN urls' |-> "pending"]
    /\ results' = <<>>
    /\ phase' = "collect"
    /\ UNCHANGED <<runs, all_links, page, collected_links, chunk_at, fileVars>>
    /\ UNCHANGED <<rlVars, rlHist, ledgerVars, lock, current_session,
                   localVars, loaded_file, lastAttempt, calls, responded>>
    /\ submitted' = 0
    /\ flushes' = 0
    /\ UNCHANGED <<runHist, lastPage, handed>>
    /\ UNCHANGED <<descVars, lockVars>>

\* make_request as extract_info sees it: a response, or None
make_request(t) ==
    /\ pc[t] = "session"
    /\ \E response \in BOOLEAN :
          IF response
          THEN /\ pc' = [pc EXCEPT ![t] = "extract"]
               /\ responded' = responded \cup {url_of(t)}
               /\ UNCHANGED <<future, task, outcome>>
          ELSE /\ future' = [future EXCEPT ![task[t]] = "none"]
               /\ outcome' = [outcome EXCEPT ![task[t]] = "nofetch"]
               /\ pc' = [pc EXCEPT ![t] = "idle"]
               /\ task' = [task EXCEPT ![t] = 0]
               /\ UNCHANGED responded
    /\ UNCHANGED <<fileVars, mainVars>>
    /\ UNCHANGED <<rlVars, rlHist, ledgerVars, lock, current_session, urls,
                   nextTask, attempt, session, fresh, loaded_file,
                   lastAttempt, calls>>
    /\ fetched' = fetched \cup {url_of(t)}
    /\ UNCHANGED <<sink_at_start, lastPage, handed, batchHist>>
    /\ UNCHANGED <<descVars, lockVars>>

\* save_product_batch(results): the rows appended under self.lock
save_product_batch(rows) == sink \o rows

ShouldFlush_late(held) == Len(held) > flush_size

\* "if len(results) >= 10"
ShouldFlush(held) == Len(held) >= flush_size

\* "for future in as_completed(...)": one iteration, with the write of the
\* records once flush_size of them are held
as_completed ==
    /\ phase = "collect"
    /\ \E k \in DOMAIN future :
          /\ future[k] \in {"none", "record"}
          /\ future' = [future EXCEPT ![k] = "taken"]
          /\ LET held == IF future[k] = "record"
                         THEN Append(results, urls[k])
                         ELSE results
             IN  /\ submitted' = IF future[k] = "record"
                                 THEN submitted + 1
                                 ELSE submitted
                 /\ IF future[k] = "record" /\ ShouldFlush(held)
                    THEN /\ LockAvailable
                         /\ sink' = save_product_batch(held)
                         /\ results' = <<>>
                         /\ flushes' = flushes + 1
                    ELSE /\ results' = held
                         /\ UNCHANGED <<sink, flushes>>
    /\ UNCHANGED <<phase, runs, all_links, page, collected_links, chunk_at,
                   link_file>>
    /\ UNCHANGED <<rlVars, rlHist, ledgerVars, lock, current_session, urls,
                   nextTask, localVars, histVars>>
    /\ UNCHANGED <<runHist, lastPage, handed>>
    /\ UNCHANGED <<descVars, lockVars>>

\* the end of worker_batch: "if results: self.save_product_batch(results)",
\* and the next value of i in scrape_optimized
drain ==
    /\ phase = "collect"
    /\ ChunkCollected
    /\ sink' = IF results # <<>> THEN save_product_batch(results) ELSE sink
    /\ results' = <<>>
    /\ chunk_at' = chunk_at + batch_size
    /\ phase' = IF chunk_at + batch_size < Len(all_links)
                THEN "chunk"
                ELSE "done"
    /\ UNCHANGED <<runs, all_links, page, collected_links, link_file>>
    /\ UNCHANGED <<rlVars, rlHist, ledgerVars, lock, current_session,
                   poolVars, localVars, histVars>>
    /\ UNCHANGED <<runHist, lastPage, handed, batchHist>>
    /\ UNCHANGED <<descVars, lockVars>>

\* the process is killed (or has ended) and the scraper is started again:
\* __init__ over the files the earlier run left
restart ==
    /\ runs < MaxRuns
    /\ runs' = runs + 1
    /\ current_delay' = base_delay
    /\ success_count' = 0
    /\ error_count' = 0
    /\ processed_urls' = load_progress(progress_file)
    /\ loaded_file' = progress_file
    /\ lock' = 0
    /\ current_session' = 0
    /\ urls' = <<>>
    /\ nextTask' = 1
    /\ future' = <<>>
    /\ outcome' = <<>>
    /\ responded' = {}
    /\ pc' = [t \in Threads |-> "idle"]
    /\ task' = [t \in Threads |-> 0]
    /\ attempt' = [t \in Threads |-> 0]
    /\ session' = [t \in Threads |-> 0]
    /\ fresh' = [t \in Threads |-> FALSE]
    /\ lastAttempt' = [t \in Threads |-> NoAttempt]
    /\ calls' = [t \in Threads |-> NoCalls]
    /\ phase' = "start"
    /\ all_links' = <<>>
    /\ page' = 0
    /\ collected_links' = <<>>
    /\ chunk_at' = 0
    /\ results' = <<>>
    /\ UNCHANGED <<rlHist, progress_file, fileVars>>
    /\ fetched' = {}
    /\ sink_at_start' = sink
    /\ lastPage' = NoPage
    /\ handed' = 0
    /\ submitted' = 0
    /\ flushes' = 0
    /\ session_lock' = 0
    /\ limiter_lock' = 0
    /\ UNCHANGED descVars

\* between two runs the link list is removed, so that the next run
\* discovers the links again
remove_link_file ==
    /\ phase = "start"
    /\ link_file.exists
    /\ link_file' = NoFile
    /\ UNCHANGED <<sink, mainVars>>
    /\ UNCHANGED <<rlVars, rlHist, ledgerVars, lock, current_session,
                   poolVars, localVars, histVars>>
    /\ UNCHANGED <<runHist, lastPage, handed, batchHist>>
    /\ UNCHANGED <<descVars, lockVars>>

Next ==
    \/ scrape_optimized
    \/ collect_links_optimized(Pages)
    \/ preview
    \/ worker_batch
    \/ \E t \in Threads :
          \/ ei_check(t)
          \/ make_request(t)
          \/ extract(t)
          \/ sp_lock(t)
          \/ sp_write(t)
    \/ as_completed
    \/ drain
    \/ restart
    \/ remove_link_file

Spec == Init /\ [][Next]_vars

(***************************************************************************)
(* SpecLocks: the threads of one chunk with every "with ...lock" block of  *)
(* make_request's callees taken apart: the acquisition is one step, the    *)
(* body with the release at the end of the block another, and the sleeps   *)
(* and session.get are steps of their own between them.                    *)
(***************************************************************************)
with_exit_leaked(holder) == holder

\* the end of a "with lock:" block: the lock is released
with_exit(holder) == 0

\* what a step of make_request leaves alone besides the rate limiter, the
\* thread's position and the locks
requestFrame == <<ledgerVars, lock, urls, nextTask, task, fresh, loaded_file,
                  calls, fileVars, mainVars, sink_at_start, lastPage,
                  batchHist, descVars>>

\* get_session: "with self.lock" entered
gs_lock(t) ==
    /\ pc[t] = "session"
    /\ session_lock = 0
    /\ session_lock' = t
    /\ pc' = [pc EXCEPT ![t] = "gs_body"]
    /\ UNCHANGED <<rlVars, rlHist, current_session, future, attempt, session,
                   outcome, lastAttempt, responded, fetched, handed,
                   limiter_lock, requestFrame>>

\* get_session: the body of the block and its end; make_request then enters
\* its loop, "for attempt in range(retries)"
gs_body(t) ==
    /\ pc[t] = "gs_body"
    /\ session' = [session EXCEPT ![t] = current_session]
    /\ current_session' = NextSession(current_session)
    /\ session_lock' = with_exit(session_lock)
    /\ attempt' = [attempt EXCEPT ![t] = 0]
    /\ handed' = handed + 1
    /\ fetched' = fetched \cup {url_of(t)}
    /\ pc' = [pc EXCEPT ![t] = "wait"]
    /\ UNCHANGED <<rlVars, rlHist, future, outcome, lastAttempt, responded,
                   limiter_lock, requestFrame>>

\* rate_limiter.wait(): time.sleep(delay) ends, session.get is called
wait(t) ==
    /\ pc[t] = "wait"
    /\ pc' = [pc EXCEPT ![t] = "get"]
    /\ UNCHANGED <<rlVars, rlHist, current_session, future, attempt, session,
                   outcome, lastAttempt, responded, fetched, handed, lockVars,
                   requestFrame>>

\* session.get(url, timeout=15) ends, with a status or with an exception:
\* which one shows in the call on the rate limiter, rl_body
get(t) ==
    /\ pc[t] = "get"
    /\ pc' = [pc EXCEPT ![t] = "rl_lock"]
    /\ UNCHANGED <<rlVars, rlHist, current_session, future, attempt, session,
                   outcome, lastAttempt, responded, fetched, handed, lockVars,
                   requestFrame>>

\* record_success / record_error: "with self.lock" entered
rl_lock(t) ==
    /\ pc[t] = "rl_lock"
    /\ limiter_lock = 0
    /\ limiter_lock' = t
    /\ pc' = [pc EXCEPT ![t] = "rl_body"]
    /\ UNCHANGED <<rlVars, rlHist, current_session, future, attempt, session,
                   outcome, lastAttempt, responded, fetched, handed,
                   session_lock, requestFrame>>

\* record_success / record_error: the body of the block and its end; then
\* "return response", or the sleep of the branch when it has one
rl_body(t) ==
    /\ pc[t] = "rl_body"
    /\ \E status \in Outcomes :
          /\ IF Head(AttemptCalls(Classify(status), attempt[t]))
                    = "record_success"
             THEN record_success
             ELSE record_error(status)
          /\ IF Classify(status) = "success"
             THEN /\ pc' = [pc EXCEPT ![t] = "extract"]
                  /\ responded' = responded \cup {url_of(t)}
             ELSE /\ pc' = [pc EXCEPT ![t] = "sleep"]
                  /\ UNCHANGED responded
    /\ limiter_lock' = with_exit(limiter_lock)
    /\ UNCHANGED <<rlHist, current_session, future, attempt, session, outcome,
                   lastAttempt, fetched, handed, session_lock, requestFrame>>

\* the time.sleep of the branch, if any, ends: the next iteration, or
\* "return None" and extract_info's "if not response: return None"
sleep(t) ==
    /\ pc[t] = "sleep"
    /\ IF MoreAttempts(attempt[t])
       THEN /\ attempt' = [attempt EXCEPT ![t] = @ + 1]
            /\ pc' = [pc EXCEPT ![t] = "wait"]
            /\ UNCHANGED <<future, outcome, task, session>>
       ELSE /\ future' = [future EXCEPT ![task[t]] = "none"]
            /\ outcome' = [outcome EXCEPT ![task[t]] = "nofetch"]
            /\ pc' = [pc EXCEPT ![t] = "idle"]
            /\ task' = [task EXCEPT ![t] = 0]
            /\ attempt' = [attempt EXCEPT ![t] = 0]
            /\ session' = [session EXCEPT ![t] = 0]
    /\ UNCHANGED <<rlVars, rlHist, ledgerVars, lock, current_session, urls,
                   nextTask, fresh, loaded_file, lastAttempt, calls, responded,
                   fileVars, mainVars, runHist, lastPage, handed, batchHist,
                   descVars, lockVars>>

LocksNext ==
    \/ \E t \in Threads :
          \/ ei_check(t)
          \/ gs_lock(t)
          \/ gs_body(t)
          \/ wait(t)
          \/ get(t)
          \/ rl_lock(t)
          \/ rl_body(t)
          \/ sleep(t)
          \/ extract(t)
          \/ sp_lock(t)
          \/ sp_write(t)
    \/ as_completed
    \/ drain

SpecLocks == FetchInit /\ [][LocksNext]_vars

(***************************************************************************)
(* Claims about the life cycle (checked under Spec).                       *)
(***************************************************************************)

\* C1: at-most-once persistence: over the runs and restarts, and under any
\* interleaving of the workers of a chunk, no URL has more than one row in
\* the sink file.
C1_AtMostOneRowPerUrl ==
    \A a, b \in DOMAIN sink : a # b => sink[a] # sink[b]

(***************************************************************************)
(* SpecBatch: worker_batch called on its own with a list of distinct URLs  *)
(* that may be longer than a chunk of the life cycle, so that several      *)
(* writes and a remainder happen within one call.                          *)
(***************************************************************************)
\* the k-th item URL of the category
item_url(k) == full_url(<<"/", "o", ToString(k)>>)

BatchInit ==
    /\ RateLimiterInit
    /\ lastCall = NoCall
    /\ okStreak = 0
    /\ errStreak = 0
    /\ progress_file = <<>>
    /\ loaded_file = <<>>
    /\ processed_urls = {}
    /\ lock = 0
    /\ current_session = 0
    /\ urls \in {[k \in 1..n |-> item_url(k)] : n \in 1..MaxSubmitted}
    /\ nextTask = 1
    /\ future = [k \in DOMAIN urls |-> "pending"]
    /\ outcome = [k \in DOMAIN urls |-> "pending"]
    /\ responded = {}
    /\ ThreadsIdle
    /\ phase = "collect"
    /\ MainIdle

BatchNext ==
    \/ \E t \in Threads :
          \/ ei_check(t)
          \/ make_request(t)
          \/ extract(t)
          \/ sp_lock(t)
          \/ sp_write(t)
    \/ as_completed
    \/ drain

SpecBatch == BatchInit /\ [][BatchNext]_vars

\* C12: within one worker_batch call, after n records were handed over by
\* as_completed, floor(n / flush_size) writes of exactly flush_size rows
\* each were made and n mod flush_size records are held back; the end of the
\* call writes those, so that every record is in the sink and none is held.
C12_BatchFlushing ==
    /\ flushes = submitted \div flush_size
    /\ phase = "collect" =>
          /\ Len(results) = submitted % flush_size
          /\ Len(sink) = flushes * flush_size
    /\ phase # "collect" =>
          /\ results = <<>>
          /\ Len(sink) = submitted

\* five records of one call: two writes were made and one record is held
C12_Witness ==
    /\ phase = "collect"
    /\ submitted = 2 * flush_size + 1
    /\ flushes = 2
    /\ Len(results) = 1
    /\ Len(sink) = 2 * flush_size

(***************************************************************************)
(* SpecDiscover: scrape_optimized without a stored link list, up to the    *)
(* return of collect_links_optimized, over listing pages long enough to    *)
(* reach the threshold of new links, on top of a ledger an earlier run     *)
(* left.                                                                   *)
(***************************************************************************)
Repeat(href, n) == [k \in 1..n |-> href]

\* a listing page: some items with one href followed by some with another
ListingPages ==
    { Repeat(h, n) \o Repeat(g, m) :
          h \in Hrefs, g \in Hrefs, n \in 0..MaxListing, m \in 0..1 }

DiscoverInit ==
    /\ RateLimiterInit
    /\ lastCall = NoCall
    /\ okStreak = 0
    /\ errStreak = 0
    /\ progress_file \in InitialLedgers
    /\ loaded_file = progress_file
    /\ processed_urls = load_progress(progress_file)
    /\ lock = 0
    /\ current_session = 0
    /\ urls = <<>>
    /\ nextTask = 1
    /\ future = <<>>
    /\ outcome = <<>>
    /\ responded = {}
    /\ ThreadsIdle
    /\ phase = "start"
    /\ MainIdle

DiscoverNext ==
    \/ scrape_optimized
    \/ collect_links_optimized(ListingPages)

SpecDiscover == DiscoverInit /\ [][DiscoverNext]_vars

\* collect_links_optimized: an iteration of "while True" after the first
\* MaxPages pages.  The loop has no page limit; page and collected_links
\* grow with every iteration and decide nothing but "page > 1", so past
\* MaxPages pages the model keeps them as they are and follows only what
\* the loop does with the page it loads
later_page(pages) ==
    /\ phase = "discover"
    /\ page > MaxPages
    /\ \E response \in BOOLEAN, items \in pages :
          LET links == page_links(items, processed_urls)
              stop == \/ ~response
                      \/ items = <<>>
                      \/ TooFewNew(links, page)
          IN  /\ ~response => items = <<>>
              /\ lastPage' = [page |-> page, response |-> response,
                              items |-> Len(items), new |-> Len(links),
                              stopped |-> stop,
                              kept |-> IF stop THEN collected_links ELSE <<>>]
              /\ IF stop
                 THEN /\ link_file' =
                            [exists |-> TRUE,
                             text |-> WriteLines(<<>>, collected_links)]
                      /\ all_links' = collected_links
                      /\ phase' = AfterDiscovery(collected_links)
                      /\ page' = 0
                      /\ collected_links' = <<>>
                 ELSE UNCHANGED <<collected_links, page, link_file,
                                  all_links, phase>>
    /\ UNCHANGED <<runs, chunk_at, results, sink>>
    /\ UNCHANGED <<rlVars, rlHist, ledgerVars, lock, current_session,
                   poolVars, localVars, histVars>>
    /\ UNCHANGED <<runHist, handed, batchHist>>
    /\ UNCHANGED <<descVars, lockVars>>

DiscoverAllNext ==
    \/ DiscoverNext
    \/ later_page(ListingPages)

\* the main thread runs the discovery alone and every make_request ends (3
\* attempts with a timeout each), so an iteration that can be taken is taken;
\* the site chooses what each page holds
SpecDiscoverLive ==
    /\ DiscoverInit
    /\ [][DiscoverAllNext]_vars
    /\ WF_vars(scrape_optimized)
    /\ WF_vars(collect_links_optimized(ListingPages))
    /\ WF_vars(later_page(ListingPages))

\* C24 as claimed: whatever the site serves, the discovery loads finitely
\* many listing pages and returns its list.
C24_DiscoveryReturns == (phase = "discover") ~> (phase # "discover")

\* C13: a page after page 1 that yields fewer than 5 new links ends the
\* discovery, and no listing page is loaded after it; page 1, when it was
\* loaded and holds items, never ends the discovery, however few new links
\* it yields.
C13_StopsBelowThreshold ==
    /\ [][phase = "discover" =>
            /\ (lastPage'.page > 1 /\ lastPage'.new < min_new_links) =>
                  /\ lastPage'.stopped
                  /\ phase' # "discover"
            /\ (lastPage'.page = 1 /\ lastPage'.response
                  /\ lastPage'.items > 0) =>
                  /\ ~lastPage'.stopped
                  /\ phase' = "discover"
                  /\ page' = 2]_vars
    /\ [][lastPage.stopped => lastPage' = lastPage]_vars
    /\ [](lastPage.stopped => phase # "discover")

\* page 2 held five items, four of them new: the discovery ended there and
\* kept the links of page 1
C13_Witness ==
    /\ lastPage.page = 2
    /\ lastPage.items = 5
    /\ lastPage.new = 4
    /\ lastPage.stopped
    /\ phase = "preview"
    /\ all_links # <<>>

(***************************************************************************)
(* SpecScore: the content analysis of extract_description_improved         *)
(* (strategy 2, reached when no description selector matched) over the     *)
(* blocks of a page.  A block is the set of the words of a small           *)
(* vocabulary its text holds, together with the length of the text; "kw in *)
(* text" is the membership of the word.  The emoji are named.              *)
(***************************************************************************)
emoji_indicators ==
    {"red_circle", "pin", "zap", "battery", "check_mark", "flag_ma",
     "package", "truck", "telephone"}
tech_specs ==
    {"PROCESSEUR", "RAM", "SSD", "HDD", "ECRAN", "CARTE GRAPHIQUE",
     "BATTERIE", "INTEL", "AMD", "NVIDIA"}
computer_terms ==
    {"RYZEN", "CORE", "DDR4", "DDR5", "NVME", "FULL HD", "4K", "IPS",
     "WINDOWS", "OFFICE"}
price_words == {"PRIX", "DH"}
delivery_words == {"LIVRAISON", "CONTACTEZ"}
nav_elements ==
    {"ACCUEIL", "SE CONNECTER", "PUBLIER", "TOUT LE MAROC", "AVITO MARKET"}

min_len == 50
max_len == 2000
min_score == 3

\* the words a block can hold: one emoji, technical keywords in upper and in
\* lower case, a computer term, a price word in lower case, a delivery word
\* and a navigation word
Vocabulary ==
    {"check_mark", "RAM", "ssd", "CORE", "dh", "LIVRAISON", "ACCUEIL"}

\* str.upper() on a word
upper(word) ==
    IF word = "ssd" THEN "SSD"
    ELSE IF word = "dh" THEN "DH"
    ELSE word

\* div_text.upper()
upper_text(words) == {upper(word) : word \in words}

WordSets == {w \in SUBSET Vocabulary : Cardinality(w) <= MaxWords}

\* the blocks of a page: every set of words in a text of the shortest
\* admitted length, and a well-scored text just too short and just too long
Divs ==
    {[words |-> w, len |-> min_len] : w \in WordSets}
        \cup {[words |-> {"check_mark", "RAM", "ssd"}, len |-> l] :
                  l \in {min_len - 1, max_len + 1}}

score_noPenalty(div) ==
    LET text == upper_text(div.words)
    IN  2 * Cardinality(emoji_indicators \cap div.words)
          + 3 * Cardinality(tech_specs \cap text)
          + Cardinality(computer_terms \cap text)
          + (IF price_words \cap text # {} THEN 2 ELSE 0)
          + (IF delivery_words \cap text # {} THEN 1 ELSE 0)

\* the score the loop body computes for a block
score(div) ==
    LET text == upper_text(div.words)
        s1 == 0 + 2 * Cardinality({e \in emoji_indicators : e \in div.words})
        s2 == s1 + 3 * Cardinality({spec \in tech_specs : spec \in text})
        s3 == s2 + Cardinality({term \in computer_terms : term \in text})
        s4 == IF "PRIX" \in text \/ "DH" \in text THEN s3 + 2 ELSE s3
        s5 == IF "LIVRAISON" \in text \/ "CONTACTEZ" \in text
              THEN s4 + 1
              ELSE s4
    IN  s5 - 5 * Cardinality({nav \in nav_elements : nav \in text})

ScoreInit ==
    /\ RateLimiterInit
    /\ lastCall = NoCall
    /\ okStreak = 0
    /\ errStreak = 0
    /\ progress_file = <<>>
    /\ loaded_file = <<>>
    /\ processed_urls = {}
    /\ lock = 0
    /\ current_session = 0
    /\ urls = <<>>
    /\ nextTask = 1
    /\ future = <<>>
    /\ outcome = <<>>
    /\ responded = {}
    /\ ThreadsIdle
    /\ phase = "idle"
    /\ RunIdle
    /\ all_divs \in UNION {[1..n -> Divs] : n \in 1..MaxDivs}
    /\ div_at = 1
    /\ best_score = 0
    /\ best_candidate = NoCandidate

\* one iteration of "for div in all_divs"
score_div ==
    /\ div_at <= Len(all_divs)
    /\ LET div == all_divs[div_at]
       IN  IF div.len < min_len \/ div.len > max_len
           THEN UNCHANGED <<best_score, best_candidate>>
           ELSE IF score(div) > best_score /\ score(div) >= min_score
           THEN /\ best_score' = score(div)
                /\ best_candidate' = div
           ELSE UNCHANGED <<best_score, best_candidate>>
    /\ div_at' = div_at + 1
    /\ UNCHANGED all_divs
    /\ UNCHANGED <<rlVars, rlHist, ledgerVars, lock, current_session,
                   poolVars, localVars, histVars, fileVars, mainVars,
                   runHist, lastPage, handed, batchHist, lockVars>>

ScoreNext == score_div

SpecScore == ScoreInit /\ [][ScoreNext]_vars

\* the number of keywords of a list a block matches
Matched(list, div) ==
    Cardinality({kw \in list : \E word \in div.words : upper(word) = kw})

\* the score as the claim states it
ClaimedScore(div) ==
    2 * Matched(emoji_indicators, div) + 3 * Matched(tech_specs, div)
      + 1 * Matched(computer_terms, div)
      + (IF Matched(price_words, div) > 0 THEN 2 ELSE 0)
      + (IF Matched(delivery_words, div) > 0 THEN 1 ELSE 0)
      - 5 * Matched(nav_elements, div)

\* the blocks the loop went through that have an admitted length
Considered ==
    {k \in 1..(div_at - 1) :
        all_divs[k].len >= min_len /\ all_divs[k].len <= max_len}

\* C17: the score of a block is 2 x emoji + 3 x technical keywords + 1 x
\* computer terms + 2 for a price word + 1 for a delivery word - 5 x
\* navigation words; the block kept is one of the highest score among the
\* blocks looked at, and only if that score is at least 3; a block with 2
\* technical keywords and 1 navigation word scores 1 and is never kept.
C17_ScoreAndThreshold ==
    /\ \A k \in DOMAIN all_divs : score(all_divs[k]) = ClaimedScore(all_divs[k])
    /\ IF best_candidate = NoCandidate
       THEN /\ best_score = 0
            /\ \A k \in Considered : ClaimedScore(all_divs[k]) < 3
       ELSE /\ best_score >= 3
            /\ ClaimedScore(best_candidate) = best_score
            /\ \E k \in Considered : all_divs[k] = best_candidate
            /\ \A k \in Considered : ClaimedScore(all_divs[k]) <= best_score
    /\ best_candidate.words # {"RAM", "ssd", "ACCUEIL"}

\* the loop went through a block with 2 technical keywords and 1 navigation
\* word (score 1, not kept) and then kept a block of score 3
C17_Witness ==
    /\ div_at = 3
    /\ all_divs[1].words = {"RAM", "ssd", "ACCUEIL"}
    /\ all_divs[1].len = min_len
    /\ score(all_divs[1]) = 1
    /\ best_candidate = all_divs[2]
    /\ best_score = 3

\* the progress file __init__ read holds a line for every URL of the category
LedgerFullAtStart ==
    \A u \in Urls :
        \E k \in DOMAIN readlines(loaded_file) :
            readlines(loaded_file)[k] = u \o <<LF>>

\* C11: a run started with a ledger that holds every URL of the category
\* (with the stored link list, or with the discovery run again) fetches no
\* item page, writes no row and leaves the ledger as it found it.
C11_FullLedgerMeansNoWork ==
    LedgerFullAtStart =>
        /\ fetched = {}
        /\ sink = sink_at_start
        /\ progress_file = loaded_file
        /\ processed_urls = load_progress(loaded_file)

\* C14: when page 1 cannot be loaded or holds no item, the discovery ends
\* with no link and the run ends there: no item page is fetched, no row is
\* written and the ledger is as __init__ found it; when a later page ends
\* the discovery, the links of the pages before it are the run's links.
C14_FirstPageFatal ==
    /\ []((lastPage.page = 1 /\ (~lastPage.response \/ lastPage.items = 0)) =>
            /\ lastPage.stopped
            /\ phase = "done"
            /\ all_links = <<>>
            /\ fetched = {}
            /\ sink = sink_at_start
            /\ progress_file = loaded_file
            /\ processed_urls = load_progress(loaded_file))
    /\ [][(phase = "discover" /\ lastPage'.stopped /\ lastPage'.page > 1) =>
            /\ all_links' = collected_links
            /\ lastPage'.kept = collected_links
            /\ collected_links # <<>> => phase' = "preview"]_vars

\* the second run found no item on page 1 and ended, the rows of the first
\* run untouched
C14_Witness ==
    /\ runs = 2
    /\ lastPage.page = 1
    /\ lastPage.response
    /\ lastPage.items = 0
    /\ phase = "done"
    /\ sink # <<>>

\* C15: the links discovery produces hold no URL twice (within a page or
\* across pages) and no URL that is in the ledger.
C15_DiscoveryDeduplicated ==
    LET produced == collected_links \o all_links
    IN  /\ \A a, b \in DOMAIN produced : a # b => produced[a] # produced[b]
        /\ \A a \in DOMAIN produced : produced[a] \notin processed_urls

(***************************************************************************)
(* Claims about the rate limiter (checked under SpecThrottle).             *)
(***************************************************************************)

\* C2: in every reachable state base_delay <= current_delay <= max_delay.
C2_DelayWithinBounds ==
    /\ ~Less(current_delay, base_delay)
    /\ ~Less(max_delay, current_delay)

\* a fourth consecutive 429 was clamped at the ceiling (6.4 -> 6.0)
C2_Witness ==
    /\ lastCall.op = "error"
    /\ lastCall.status_code = RateLimited
    /\ errStreak = 4
    /\ current_delay = max_delay

\* C3: a record_success call that completes a run of 15 successes since the
\* last error (or since the last decay) sets the delay to
\* max(base_delay, 0.9 x delay) and the success counter to 0; every other
\* record_success call leaves the delay unchanged and counts the success.
C3_DecayEveryFifteenth ==
    [][lastCall'.op = "success" =>
         IF okStreak' % SuccessThreshold = 0
         THEN /\ current_delay' = MaxQ(base_delay, Mul(current_delay, 9, 10))
              /\ success_count' = 0
         ELSE /\ current_delay' = current_delay
              /\ success_count' = okStreak' % SuccessThreshold]_vars

\* 1.6 s (one 429) decayed to 1.44 s by the fifteenth success
C3_Witness ==
    /\ lastCall.op = "success"
    /\ okStreak = SuccessThreshold
    /\ success_count = 0
    /\ current_delay = Frac(36, 25)

\* C4: record_error(429) sets the delay to min(max_delay, 2 x delay), whatever
\* the streaks are, and does not apply the x1.2 growth in the same call.
C4_RateLimitedDoubles ==
    [][(lastCall'.op = "error" /\ lastCall'.status_code = RateLimited) =>
         current_delay' = MinQ(max_delay, Mul(current_delay, 2, 1))]_vars

\* a 429 arriving as the fifth consecutive error: 0.8 s -> 1.6 s, not 1.92 s
C4_Witness ==
    /\ lastCall.op = "error"
    /\ lastCall.status_code = RateLimited
    /\ errStreak = ErrorThreshold
    /\ current_delay = Frac(8, 5)

\* C5: every record_error call resets the success counter; a call without the
\* 429 status leaves the delay unchanged while fewer than 5 errors happened
\* in a row, and from the fifth consecutive error on sets it to
\* min(max_delay, 1.2 x delay).
C5_GenericErrorGrowth ==
    [][lastCall'.op = "error" =>
         /\ success_count' = 0
         /\ lastCall'.status_code # RateLimited =>
              IF errStreak' < ErrorThreshold
              THEN current_delay' = current_delay
              ELSE current_delay' = MinQ(max_delay, Mul(current_delay, 6, 5))]_vars

\* five generic errors in a row: 0.8 s -> 0.96 s
C5_Witness ==
    /\ lastCall.op = "error"
    /\ lastCall.status_code # RateLimited
    /\ errStreak = ErrorThreshold
    /\ current_delay = Frac(24, 25)

(***************************************************************************)
(* Claims about make_request, extract_info and save_progress (checked      *)
(* under SpecFetch).                                                       *)
(***************************************************************************)
InMemoryAtLoad == load_progress(loaded_file)

\* the lines save_progress appended since __init__ read the file
WrittenLines ==
    LET all == readlines(progress_file)
    IN  SubSeq(all, Len(readlines(loaded_file)) + 1, Len(all))

\* C6 as claimed: an attempt answered with any 2xx status calls
\* record_success once, calls no record_error, and make_request returns
\* without a further attempt.
C6_AnySuccessStatusReturns ==
    \A t \in Threads :
        lastAttempt[t].status \in SuccessStatuses =>
            /\ lastAttempt[t].calls = <<"record_success">>
            /\ pc[t] # "get"

\* C6 as amended: an attempt answered with status 200 calls record_success
\* once, calls no record_error, and make_request returns the response without
\* a further attempt; any other 2xx status is handled as a generic error
\* (record_error with that status, no sleep).
C6_Status200Returns ==
    \A t \in Threads :
        /\ lastAttempt[t].status = OK =>
              /\ lastAttempt[t].calls = <<"record_success">>
              /\ pc[t] \in {"extract", "sp_lock", "sp_write"}
              /\ calls[t] = NoCalls
              /\ url_of(t) \in responded
        /\ lastAttempt[t].status \in SuccessStatuses \ {OK} =>
              lastAttempt[t].calls = <<"record_error">>

\* a thread holds the response of a 200 while the other is still fetching
C6_Witness ==
    \E t \in Threads :
        /\ lastAttempt[t].status = OK
        /\ pc[t] = "extract"
        /\ success_count = 1
        /\ \E o \in Threads \ {t} : pc[o] = "get" /\ attempt[o] = 1

\* C16: get_session hands the sessions out round-robin under every
\* interleaving of the callers: the k-th completed call (from 0) returns
\* session k mod n, n the number of sessions (max_workers), and the cursor
\* stays within 0..n-1.
C16_RoundRobin ==
    /\ [](/\ current_session \in 0..(max_workers - 1)
          /\ current_session = handed % max_workers)
    /\ [][\A t \in Threads :
            (pc[t] = "session" /\ pc'[t] = "get") =>
                /\ session'[t] = handed % max_workers
                /\ handed' = handed + 1]_vars

\* the second thread called first: it holds session 0, the first thread
\* holds session 1, and the cursor is back at 0
C16_Witness ==
    /\ handed = max_workers
    /\ current_session = 0
    /\ pc[1] = "get"
    /\ pc[2] = "get"
    /\ session[2] = 0
    /\ session[1] = 1

\* C19 as claimed: an attempt answered with 429 calls record_error(429);
\* the cooldown of 10 s times the attempt number (10, 20, ...) is slept only
\* when a next attempt follows: after the last attempt nothing is slept.
C19_CooldownOnlyBeforeRetry ==
    \A t \in Threads :
        lastAttempt[t].status = RateLimited =>
            /\ Head(lastAttempt[t].calls) = "record_error"
            /\ lastAttempt[t].sleep =
                  IF lastAttempt[t].attempt + 1 < retries
                  THEN [lo |-> (lastAttempt[t].attempt + 1) * 10,
                        hi |-> (lastAttempt[t].attempt + 1) * 10]
                  ELSE NoSleep

\* C20 as claimed: an attempt that ends with another non-success status or
\* with a transport failure calls record_error and, when a next attempt
\* follows, sleeps a random backoff within [2, 5] s before it, in both cases.
C20_BackoffBeforeEveryRetry ==
    \A t \in Threads :
        (/\ lastAttempt[t].calls # <<>>
         /\ lastAttempt[t].status \notin {OK, RateLimited}) =>
            /\ Head(lastAttempt[t].calls) = "record_error"
            /\ lastAttempt[t].attempt + 1 < retries =>
                  lastAttempt[t].sleep = [lo |-> 2, hi |-> 5]

\* C7: make_request issues at most 3 session.get calls, each after a
\* rate_limiter.wait(); a task ends as a fetch failure only after 3 failed
\* attempts, and that step leaves the ledger (set and file) unchanged; every
\* URL of the ledger was loaded at start or got a response.
C7_ThreeAttemptsThenUnrecorded ==
    /\ [](\A t \in Threads :
            /\ attempt[t] <= 2
            /\ pc[t] = "get" =>
                  /\ calls[t].gets = attempt[t]
                  /\ calls[t].waits = calls[t].gets + 1)
    /\ [](\A u \in processed_urls \cup load_progress(progress_file) :
            \/ u \in InMemoryAtLoad
            \/ \E r \in responded : u \in {r, strip(r)})
    /\ [][\A i \in DOMAIN urls :
            (outcome[i] = "pending" /\ outcome'[i] = "nofetch") =>
                /\ \E t \in Threads : task[t] = i /\ calls[t].gets = 2
                /\ future'[i] = "none"
                /\ UNCHANGED ledgerVars]_vars

\* a URL whose three attempts failed is in neither the set nor the file,
\* while the other URL of the chunk was recorded
C7_Witness ==
    \E i, j \in DOMAIN urls :
        /\ outcome[i] = "nofetch"
        /\ urls[i] \notin processed_urls
        /\ \A k \in DOMAIN WrittenLines : WrittenLines[k] # urls[i] \o <<LF>>
        /\ outcome[j] = "record"

\* C8 as claimed: once extract_info has ended for a URL it got a response
\* for, the URL is in the ledger, whether the extraction succeeded or not.
C8_ResponseImpliesRecorded ==
    \A i \in DOMAIN urls :
        outcome[i] \in {"record", "raised"} => urls[i] \in processed_urls

\* C18: whenever a response was obtained, extract_info produces a record,
\* whichever single field's extraction failed (the field gets the sentinel):
\* no task ends without a record once it holds a response.
C18_FieldFailureKeepsRecord ==
    \A i \in DOMAIN outcome : outcome[i] # "raised"

\* C9: save_progress on a URL that is already in the set changes neither the
\* set nor the file, under every interleaving; the lines appended during the
\* run are pairwise different and none repeats a URL that was in the set
\* when the run started.
C9_SaveProgressIdempotent ==
    /\ [](\A i, j \in DOMAIN WrittenLines :
            /\ i # j => WrittenLines[i] # WrittenLines[j]
            /\ \A u \in InMemoryAtLoad : WrittenLines[i] # u \o <<LF>>)
    /\ [][\A t \in Threads :
            (pc[t] = "sp_write" /\ pc'[t] # "sp_write"
                /\ url_of(t) \in processed_urls) =>
                UNCHANGED ledgerVars]_vars

\* both tasks of a chunk that names one URL twice ended in save_progress,
\* and the file gained one line
C9_Witness ==
    /\ Len(urls) = 2
    /\ urls[1] = urls[2]
    /\ outcome[1] = "record"
    /\ outcome[2] = "record"
    /\ Len(WrittenLines) = 1

\* C10 as claimed: load_progress on the persisted file gives back exactly the
\* in-memory set save_progress built.
C10_LedgerRoundTrip == load_progress(progress_file) = processed_urls


(***************************************************************************)
(* Claims about a whole run and about a kill followed by a restart         *)
(* (checked under Spec).                                                   *)
(***************************************************************************)
\* the URLs save_progress recorded since __init__: save_progress(url) is the
\* last statement of extract_info before "return {...}", so these are the
\* URLs whose extraction produced a record in this run
RecordedThisRun == processed_urls \ InMemoryAtLoad

\* url has a row in the CSV file
InSink(url) == \E k \in DOMAIN sink : strip(sink[k]) = strip(url)

\* C21 as claimed: after a kill at any point and a restart that runs to its
\* end, every URL of the ledger has its row in the sink.
C21_LedgerImpliesSinkAfterResume ==
    (runs > 1 /\ phase = "done") =>
        \A u \in load_progress(progress_file) : InSink(u)

\* C22 as claimed: at the end of a run, every URL whose extraction produced
\* a record during the run, the previewed first URL included, has a row in
\* the sink.
C22_RecordedImpliesPersisted ==
    phase = "done" => \A u \in RecordedThisRun : InSink(u)

(***************************************************************************)
(* Claims about the locks (checked under SpecLocks).                       *)
(***************************************************************************)
\* the locks thread t holds
LocksHeld(t) ==
    {name \in {"session_manager", "rate_limiter", "scraper"} :
        \/ name = "session_manager" /\ session_lock = t
        \/ name = "rate_limiter" /\ limiter_lock = t
        \/ name = "scraper" /\ lock = t}

\* t is in rate_limiter.wait(), in session.get, or in a sleep of the loop
Blocking(t) == pc[t] \in {"wait", "get", "sleep"}

\* C23: a thread inside session.get, the throttle sleep or a backoff sleep
\* holds no lock; no thread holds two locks at once; and the holder of a
\* lock is inside the block that releases it, where it waits for nothing,
\* so that no thread waits for a lock for ever.
C23_NoLockAcrossNetwork ==
    \A t \in Threads :
        /\ Blocking(t) => LocksHeld(t) = {}
        /\ Cardinality(LocksHeld(t)) <= 1
        /\ session_lock = t => pc[t] = "gs_body"
        /\ limiter_lock = t => pc[t] = "rl_body"
        /\ lock = t => pc[t] = "sp_write"
        /\ {session_lock, limiter_lock, lock} \subseteq Threads \cup {0}

\* the first thread is inside the session.get of its second attempt while
\* the second thread holds the rate limiter's lock
C23_Witness ==
    /\ pc[1] = "get"
    /\ attempt[1] = 1
    /\ limiter_lock = 2
    /\ pc[2] = "rl_body"
    /\ LocksHeld(1) = {}

(***************************************************************************)
(* SpecRun: one run from the return of the discovery to its end, not       *)
(* killed, with the threads as in SpecLocks and under fair scheduling.     *)
(***************************************************************************)
\* the lists a first discovery returns from a category of up to MaxItems
\* items, in page order
PendingLists == {[k \in 1..n |-> item_url(k)] : n \in 1..MaxItems}

\* scrape_optimized after "all_links = self.collect_links_optimized()"
RunInit ==
    /\ RateLimiterInit
    /\ lastCall = NoCall
    /\ okStreak = 0
    /\ errStreak = 0
    /\ progress_file = <<>>
    /\ loaded_file = <<>>
    /\ processed_urls = {}
    /\ lock = 0
    /\ current_session = 0
    /\ urls = <<>>
    /\ nextTask = 1
    /\ future = <<>>
    /\ outcome = <<>>
    /\ responded = {}
    /\ ThreadsIdle
    /\ all_divs = <<>>
    /\ div_at = 1
    /\ best_score = 0
    /\ best_candidate = NoCandidate
    /\ session_lock = 0
    /\ limiter_lock = 0
    /\ fetched = {}
    /\ sink_at_start = <<>>
    /\ lastPage = NoPage
    /\ handed = 0
    /\ submitted = 0
    /\ flushes = 0
    /\ runs = 1
    /\ sink = <<>>
    /\ page = 0
    /\ collected_links = <<>>
    /\ chunk_at = 0
    /\ results = <<>>
    /\ all_links \in PendingLists
    /\ link_file = [exists |-> TRUE, text |-> WriteLines(<<>>, all_links)]
    /\ phase = "preview"

RunNext ==
    \/ preview
    \/ worker_batch
    \/ \E t \in Threads :
          \/ ei_check(t)
          \/ gs_lock(t)
          \/ gs_body(t)
          \/ wait(t)
          \/ get(t)
          \/ rl_lock(t)
          \/ rl_body(t)
          \/ sleep(t)
          \/ extract(t)
          \/ sp_lock(t)
          \/ sp_write(t)
    \/ as_completed
    \/ drain

\* the main thread and every pool thread go on when they can: the sleeps
\* end, session.get ends (timeout=15), and a thread that can take a lock
\* which stays free takes it
RunFairness ==
    /\ WF_vars(preview)
    /\ WF_vars(worker_batch)
    /\ WF_vars(as_completed)
    /\ WF_vars(drain)
    /\ \A t \in Threads :
          /\ WF_vars(ei_check(t))
          /\ WF_vars(gs_lock(t))
          /\ WF_vars(gs_body(t))
          /\ WF_vars(wait(t))
          /\ WF_vars(get(t))
          /\ WF_vars(rl_lock(t))
          /\ WF_vars(rl_body(t))
          /\ WF_vars(sleep(t))
          /\ WF_vars(extract(t))
          /\ WF_vars(sp_lock(t))
          /\ WF_vars(sp_write(t))

SpecRun == RunInit /\ [][RunNext]_vars /\ RunFairness

(***************************************************************************)
(* Claims about the end of a run (checked under SpecRun).                  *)
(***************************************************************************)
\* t is about to enter a "with ...lock" block
WaitsForLock(t) == pc[t] \in {"session", "rl_lock", "sp_lock"}

\* every task of the chunk has ended and its future was collected
ChunkOver ==
    /\ \A k \in DOMAIN future : future[k] = "taken"
    /\ \A t \in Threads : pc[t] = "idle" /\ task[t] = 0

\* the part of C25 that holds as claimed: the run reaches its end and stays
\* there; a make_request call makes at most 3 attempts; every chunk
\* completes; a chunk starts after the preview or after every task of the
\* chunk before it has ended and worker_batch has written the records it
\* held; no thread waits for a lock for ever.
RunCompletes ==
    /\ <>[](phase = "done")
    /\ [](\A t \in Threads : attempt[t] < retries)
    /\ (phase = "collect") ~> (phase # "collect")
    /\ [][(phase = "collect" /\ phase' # "collect") =>
            /\ ChunkOver
            /\ results' = <<>>
            /\ sink' = sink \o results]_vars
    /\ [][(phase # "chunk" /\ phase' = "chunk") =>
            \/ phase = "preview"
            \/ phase = "collect" /\ chunk_at' = chunk_at + batch_size]_vars
    /\ \A t \in Threads : WaitsForLock(t) ~> ~WaitsForLock(t)

\* a make_request call that starts for a URL for which an earlier call of
\* the run ended without a response: the earlier call made 3 attempts, this
\* one makes the 4th
FourthAttempt(t) ==
    /\ pc[t] = "gs_body"
    /\ pc'[t] = "wait"
    /\ url_of(t) \in fetched \ responded

\* C25 as claimed: the run reaches DONE, every chunk completes in order, no
\* thread waits for a lock for ever, and every URL gets at most 3 fetch
\* attempts in the run.
C25_AtMostThreeAttemptsPerUrl ==
    /\ RunCompletes
    /\ [][\A t \in Threads : ~FourthAttempt(t)]_vars

\* C25 as amended: the run reaches DONE, every chunk completes in order, no
\* thread waits for a lock for ever, and every make_request call makes at
\* most 3 attempts; a URL is fetched by a second call, and so gets more
\* than 3 attempts, only when it is the first of the list and its preview
\* ended without a record.
C25_AtMostThreeAttemptsPerCall ==
    /\ RunCompletes
    /\ [][\A t \in Threads : FourthAttempt(t) => url_of(t) = all_links[1]]_vars
    /\ [](\A u \in fetched \cap processed_urls :
            \A t \in Threads : pc[t] = "session" => url_of(t) # u)

\* a run of two chunks has ended with the rows of all three URLs written:
\* the preview of the first URL gave no record and its chunk fetched it again
C25_Witness ==
    /\ phase = "done"
    /\ chunk_at > batch_size
    /\ Len(sink) = Len(all_links)
    /\ all_links[1] \in Range(sink)
    /\ \A t \in Threads : pc[t] = "idle"

====
